---------------------------- MODULE Spec2Model ----------------------------
(***************************************************************************)
(* A model of formula.py (class Formula): an R-style formula string is     *)
(* split into a response and '+'-separated feature terms, every term is    *)
(* resolved against the data frame held in the instance field self.data,   *)
(* and the resolved arrays are stacked into the design matrix X.           *)
(*                                                                         *)
(* Python strings are sequences of one-character strings over ASCII.  A    *)
(* numpy cell is a sequence of integers: <<0, v>> is the number v,         *)
(* <<k, v>> (k in 1..7) the transform number k applied to v,               *)
(* <<8, v, num, den>> the power v ** float(num/den) when it is no integer  *)
(* power (den = 0 for an infinite or not-a-number exponent), and           *)
(* <<9>> \o a \o b the product of two cells that are not both plain        *)
(* numbers.                                                                *)
(*                                                                         *)
(* self.data is read anew wherever the code names it, so a call that       *)
(* overlaps another one can see a different data frame at each read; the   *)
(* steps of a call are cut at these reads.                                 *)
(***************************************************************************)
EXTENDS Integers, Sequences, FiniteSets, TLC

(***************************************************************************)
(* str: count, find, rfind, slicing, split, strip.  A string is a sequence *)
(* of one-character strings over the ASCII alphabet.                       *)
(***************************************************************************)
\* the ASCII characters for which str.isspace() holds: space, \t, \n, \r,
\* \x0c, \x0b and \x1c to \x1f
Whitespace == {" ", "\t", "\n", "\r", "\f", "", "", "", "", ""}

Digits == {"0", "1", "2", "3", "4", "5", "6", "7", "8", "9"}

LowerSeq ==
  <<"a", "b", "c", "d", "e", "f", "g", "h", "i", "j", "k", "l", "m", "n", "o",
    "p", "q", "r", "s", "t", "u", "v", "w", "x", "y", "z">>

UpperSeq ==
  <<"A", "B", "C", "D", "E", "F", "G", "H", "I", "J", "K", "L", "M", "N", "O",
    "P", "Q", "R", "S", "T", "U", "V", "W", "X", "Y", "Z">>

Letters ==
  {LowerSeq[i] : i \in 1..Len(LowerSeq)} \cup {UpperSeq[i] : i \in 1..Len(UpperSeq)}

\* \w and \d of the regular expressions, on ASCII
WordChars == Letters \cup Digits \cup {"_"}

\* s.lower()
LowerChar(c) ==
  IF \E i \in 1..Len(UpperSeq) : UpperSeq[i] = c
  THEN LowerSeq[CHOOSE i \in 1..Len(UpperSeq) : UpperSeq[i] = c]
  ELSE c

LowerCase(s) == [i \in 1..Len(s) |-> LowerChar(s[i])]

Min(a, b) == IF a < b THEN a ELSE b

Max(a, b) == IF a < b THEN b ELSE a

\* s.count(ch)
Count(s, ch) == Cardinality({i \in 1..Len(s) : s[i] = ch})

\* ch in s
Contains(s, ch) == \E i \in 1..Len(s) : s[i] = ch

\* s.find(ch): the 0-based index of the first ch, or -1
Find(s, ch) ==
  IF Contains(s, ch)
  THEN (CHOOSE i \in 1..Len(s) : s[i] = ch /\ \A j \in 1..(i - 1) : s[j] # ch) - 1
  ELSE -1

\* s.rfind(ch): the 0-based index of the last ch, or -1
RFind(s, ch) ==
  IF Contains(s, ch)
  THEN (CHOOSE i \in 1..Len(s) : s[i] = ch /\ \A j \in (i + 1)..Len(s) : s[j] # ch) - 1
  ELSE -1

\* s[a:b] with a >= 0; a negative b counts from the end
Slice(s, a, b) ==
  LET hi == IF b < 0 THEN Max(Len(s) + b, 0) ELSE Min(b, Len(s))
  IN  SubSeq(s, a + 1, hi)

\* s.split(ch): Count(s, ch) + 1 pieces, empty pieces kept
RECURSIVE Split(_, _)
Split(s, ch) ==
  LET k == Find(s, ch)
  IN  IF k = -1 THEN <<s>>
      ELSE <<Slice(s, 0, k)>> \o Split(Slice(s, k + 1, Len(s)), ch)

\* s without the leading and trailing characters of the set blank
StripOf(s, blank) ==
  LET keep == {i \in 1..Len(s) : s[i] \notin blank}
  IN  IF keep = {} THEN <<>>
      ELSE SubSeq(s, CHOOSE i \in keep : \A j \in keep : i <= j,
                     CHOOSE i \in keep : \A j \in keep : j <= i)

\* s.strip()
Strip(s) == StripOf(s, Whitespace)

\* s.split(): the maximal runs of non-whitespace characters
RECURSIVE SplitWs(_)
SplitWs(s) ==
  LET t == Strip(s)
      k == IF \E i \in 1..Len(t) : t[i] \in Whitespace
           THEN CHOOSE i \in 1..Len(t) :
                  t[i] \in Whitespace /\ \A j \in 1..(i - 1) : t[j] \notin Whitespace
           ELSE 0
  IN  IF t = <<>> THEN <<>>
      ELSE IF k = 0 THEN <<t>>
      ELSE <<SubSeq(t, 1, k - 1)>> \o SplitWs(SubSeq(t, k + 1, Len(t)))

\* list(map(str.strip, pieces))
StripAll(pieces) == [i \in 1..Len(pieces) |-> Strip(pieces[i])]

\* len(set(features)) < len(features)
HasDuplicates(features) ==
  \E i, j \in 1..Len(features) : i < j /\ features[i] = features[j]


(***************************************************************************)
(* int(), float() and Fraction() on the literals a formula can hold.       *)
(* A number is [err, num, den]: err is "" when the conversion succeeds,    *)
(* and the value is then num/den in lowest terms with den > 0, or, for     *)
(* float only, infinite (den = 0, num = 1 or -1) or not a number (den = 0, *)
(* num = 0).  A float num/den stands for the double nearest to num/den.    *)
(***************************************************************************)
ErrSeparator == "ValueError: ~ should be used to separate the response and the features"

ErrResponse == "ValueError: The response columns should be in the data"

ErrDuplicate == "ValueError: The features should be different"

ErrColon == "ValueError: The operator : should be binary"

ErrStar == "ValueError: The operator * should be binary"

ErrPolyPower == "ValueError: Power should be no small than 1 in the poly"

ErrUnsupported == "ValueError: The current operation is not supported"

ErrUnpackFew == "ValueError: not enough values to unpack"

ErrUnpackMany == "ValueError: too many values to unpack"

ErrKey == "KeyError"

ErrFloat == "ValueError: could not convert string to float"

ErrInt == "ValueError: invalid literal for int() with base 10"

ErrFraction == "ValueError: Invalid literal for Fraction"

ErrZeroDivision == "ZeroDivisionError"

ErrBroadcast == "ValueError: operands could not be broadcast together"

ErrRagged == "ValueError: setting an array element with a sequence. The requested array has an inhomogeneous shape"

ErrStack == "ValueError: all the input array dimensions except for the concatenation axis must match exactly"

ErrAttribute == "AttributeError: 'Formula' object has no attribute 'data'"

DigitSeq == <<"0", "1", "2", "3", "4", "5", "6", "7", "8", "9">>

DigitVal(c) == (CHOOSE i \in 1..Len(DigitSeq) : DigitSeq[i] = c) - 1

\* the characters int() and float() skip around an ASCII literal: space,
\* \t, \n, \r, \x0c and \x0b, but not \x1c to \x1f
NumberSpace == {" ", "\t", "\n", "\r", "\f", ""}

IsDigit(c) == c \in Digits

\* \d+(_\d+)*: digits, with single underscores between digits
IsDigits(s) ==
  /\ Len(s) > 0
  /\ \A i \in 1..Len(s) : s[i] \in Digits \cup {"_"}
  /\ s[1] # "_"
  /\ s[Len(s)] # "_"
  /\ \A i \in 1..(Len(s) - 1) : ~(s[i] = "_" /\ s[i + 1] = "_")

RECURSIVE NatDigits(_)
NatDigits(s) ==
  IF s = <<>> THEN 0
  ELSE NatDigits(SubSeq(s, 1, Len(s) - 1)) * Len(DigitSeq) + DigitVal(s[Len(s)])

\* the value of digits, their underscores dropped
NatVal(s) == NatDigits(SelectSeq(s, IsDigit))

RECURSIVE Pow(_, _)
Pow(b, e) == IF e = 0 THEN 1 ELSE b * Pow(b, e - 1)

Abs(a) == IF a < 0 THEN -a ELSE a

RECURSIVE Gcd(_, _)
Gcd(a, b) == IF b = 0 THEN Abs(a) ELSE Gcd(b, a % b)

\* num/den in lowest terms with a positive denominator
Rational(num, den) ==
  LET g == Gcd(num, den)
      sg == IF den < 0 THEN -1 ELSE 1
  IN  [err |-> "", num |-> sg * (num \div g), den |-> sg * (den \div g)]

NumberError(e) == [err |-> e, num |-> 0, den |-> 1]

\* float('inf'), float('-inf') for sg = -1, and float('nan')
Infinite(sg) == [err |-> "", num |-> sg, den |-> 0]

NotANumber == [err |-> "", num |-> 0, den |-> 0]

\* the sign of a literal and the text after it
SignOf(s) == IF Len(s) > 0 /\ s[1] = "-" THEN -1 ELSE 1

Unsigned(s) == IF Len(s) > 0 /\ s[1] \in {"-", "+"} THEN Tail(s) ELSE s

\* the 0-based index of the exponent marker 'e' or 'E' of a literal, or -1
ExponentMark(u) ==
  IF \E i \in 1..Len(u) : u[i] \in {"e", "E"}
  THEN (CHOOSE i \in 1..Len(u) :
          u[i] \in {"e", "E"} /\ \A j \in 1..(i - 1) : u[j] \notin {"e", "E"}) - 1
  ELSE -1

\* the text before the exponent marker
Mantissa(u) == IF ExponentMark(u) = -1 THEN u ELSE Slice(u, 0, ExponentMark(u))

\* the text after the exponent marker; without a marker the exponent is 0
ExponentText(u) ==
  IF ExponentMark(u) = -1 THEN <<"0">> ELSE Slice(u, ExponentMark(u) + 1, Len(u))

\* digits, or digits '.' digits with digits on at least one side
DecimalLiteral(u) ==
  LET k == Find(u, ".")
      whole == IF k = -1 THEN u ELSE Slice(u, 0, k)
      frac == IF k = -1 THEN <<>> ELSE Slice(u, k + 1, Len(u))
  IN  /\ Len(whole) + Len(frac) > 0
      /\ whole = <<>> \/ IsDigits(whole)
      /\ frac = <<>> \/ IsDigits(frac)

DecimalValue(u) ==
  LET k == Find(u, ".")
      whole == IF k = -1 THEN u ELSE Slice(u, 0, k)
      frac == IF k = -1 THEN <<>> ELSE Slice(u, k + 1, Len(u))
      scale == Pow(Len(DigitSeq), Len(SelectSeq(frac, IsDigit)))
  IN  Rational(NatVal(whole) * scale + NatVal(frac), scale)

\* a decimal literal with an optional exponent: 'e' or 'E', a sign, digits
ScientificLiteral(u) ==
  DecimalLiteral(Mantissa(u)) /\ IsDigits(Unsigned(ExponentText(u)))

\* v * 10 ** e
Scaled(v, e) ==
  IF e >= 0 THEN Rational(v.num * Pow(Len(DigitSeq), e), v.den)
  ELSE Rational(v.num, v.den * Pow(Len(DigitSeq), -e))

ScientificValue(u) ==
  Scaled(DecimalValue(Mantissa(u)),
         SignOf(ExponentText(u)) * NatVal(Unsigned(ExponentText(u))))

Signed(sg, v) == Rational(sg * v.num, v.den)

\* int(s): surrounding whitespace, a sign, digits
ParseInt(s) ==
  LET t == StripOf(s, NumberSpace)
      u == Unsigned(t)
  IN  IF IsDigits(u) THEN Rational(SignOf(t) * NatVal(u), 1) ELSE NumberError(ErrInt)

\* 'inf', 'infinity' and 'nan' in any case
InfinityWords == {<<"i", "n", "f">>, <<"i", "n", "f", "i", "n", "i", "t", "y">>}

NanWord == <<"n", "a", "n">>

\* float(s): surrounding whitespace, a sign, then a word for a non-finite
\* value or a decimal literal with an optional exponent
ParseFloat(s) ==
  LET t == StripOf(s, NumberSpace)
      u == Unsigned(t)
  IN  IF LowerCase(u) \in InfinityWords THEN Infinite(SignOf(t))
      ELSE IF LowerCase(u) = NanWord THEN NotANumber
      ELSE IF ScientificLiteral(u) THEN Signed(SignOf(t), ScientificValue(u))
      ELSE NumberError(ErrFloat)

\* the pattern of Fraction in CPython 3.11 reads the fractional part as
\* d*|\d+(_\d+)* without regard to case: digits, '.', letters d and an
\* optional exponent pass the pattern
LetterFraction(u) ==
  LET m == Mantissa(u)
      k == Find(m, ".")
      frac == Slice(m, k + 1, Len(m))
  IN  /\ k # -1
      /\ IsDigits(Slice(m, 0, k))
      /\ Len(frac) > 0
      /\ \A i \in 1..Len(frac) : frac[i] \in {"d", "D"}
      /\ IsDigits(Unsigned(ExponentText(u)))

\* Fraction(s): surrounding whitespace (\s, as str.strip() on ASCII), a
\* sign, then digits '/' digits or a decimal literal with an optional
\* exponent; a fractional part of letters d fails in int() afterwards
ParseFraction(s) ==
  LET t == Strip(s)
      u == Unsigned(t)
      k == Find(u, "/")
      top == Slice(u, 0, k)
      bot == Slice(u, k + 1, Len(u))
  IN  IF k = -1
      THEN IF ScientificLiteral(u) THEN Signed(SignOf(t), ScientificValue(u))
           ELSE IF LetterFraction(u) THEN NumberError(ErrInt)
           ELSE NumberError(ErrFraction)
      ELSE IF ~(IsDigits(top) /\ IsDigits(bot)) THEN NumberError(ErrFraction)
      ELSE IF NatVal(bot) = 0 THEN NumberError(ErrZeroDivision)
      ELSE Rational(SignOf(t) * NatVal(top), NatVal(bot))

\* a + b on two rationals
AddRational(a, b) == Rational(a.num * b.den + b.num * a.den, a.den * b.den)

\* sum(Fraction(s) for s in tokens): the first failing token raises
RECURSIVE SumFractions(_, _)
SumFractions(tokens, acc) ==
  IF tokens = <<>> THEN acc
  ELSE LET f == ParseFraction(Head(tokens))
       IN  IF f.err # "" THEN f ELSE SumFractions(Tail(tokens), AddRational(acc, f))

(***************************************************************************)
(* numpy cells and arrays.  An array is [err, dim, rows]: err is "" for a  *)
(* value and the exception otherwise, dim is 1 for a vector (one row) and  *)
(* 2 for a matrix, rows are the rows, each a sequence of cells.            *)
(***************************************************************************)
Num(v) == <<0, v>>

IsNum(c) == c[1] = 0

PowerCode == 8

ProductCode == 9

\* a * b on two cells
MulCell(a, b) ==
  IF IsNum(a) /\ IsNum(b) THEN Num(a[2] * b[2]) ELSE <<ProductCode>> \o a \o b

\* v ** float(num/den)
PowCell(v, num, den) ==
  IF den = 1 /\ num >= 0 THEN Num(Pow(v, num)) ELSE <<PowerCode, v, num, den>>

Raise(e) == [err |-> e, dim |-> 0, rows |-> <<>>]

Vector(cells) == [err |-> "", dim |-> 1, rows |-> <<cells>>]

Matrix(rows) == [err |-> "", dim |-> 2, rows |-> rows]

\* cell i of a row broadcast to a longer length
CellAt(r, i) == IF Len(r) = 1 THEN r[1] ELSE r[i]

MulRow(r1, r2) ==
  [i \in 1..Max(Len(r1), Len(r2)) |-> MulCell(CellAt(r1, i), CellAt(r2, i))]

\* X1 * X2 with numpy broadcasting: on the trailing axis (the cells of a
\* row) and on the leading axis (the rows, a vector counting as one row)
\* the lengths must be equal or one of them 1
Multiply(a, b) ==
  LET ka == Len(a.rows)
      kb == Len(b.rows)
      na == Len(a.rows[1])
      nb == Len(b.rows[1])
      ra(i) == IF ka = 1 THEN a.rows[1] ELSE a.rows[i]
      rb(i) == IF kb = 1 THEN b.rows[1] ELSE b.rows[i]
  IN  IF (ka # kb /\ ka # 1 /\ kb # 1) \/ (na # nb /\ na # 1 /\ nb # 1)
      THEN Raise(ErrBroadcast)
      ELSE [err |-> "", dim |-> Max(a.dim, b.dim),
            rows |-> [i \in 1..Max(ka, kb) |-> MulRow(ra(i), rb(i))]]

(***************************************************************************)
(* The data frames the calls are made with: named integer columns of one   *)
(* length.  The second frame has other values, another row count and a     *)
(* column whose name is literally 'c(g)'.                                  *)
(***************************************************************************)
Frames ==
  << [n |-> 2,
      cols |-> (<<"y">> :> <<10, 20>>) @@ (<<"x">> :> <<1, 2>>) @@
               (<<"z">> :> <<3, 4>>) @@ (<<"g">> :> <<1, 2>>)],
     [n |-> 3,
      cols |-> (<<"y">> :> <<30, 40, 50>>) @@ (<<"x">> :> <<2, 3, 5>>) @@
               (<<"z">> :> <<1, 2, 4>>) @@ (<<"g">> :> <<7, 7, 9>>) @@
               (<<"c", "(", "g", ")">> :> <<5, 6, 8>>)] >>

FrameIds == 1..Len(Frames)

\* feature in self.data.columns
HasColumn(d, name) == name \in DOMAIN Frames[d].cols

\* self.data[name].values
Values(d, name) == [i \in 1..Frames[d].n |-> Num(Frames[d].cols[name][i])]

\* np.ones(self.data.shape[0])
Ones(d) == Vector([i \in 1..Frames[d].n |-> Num(1)])

\* a finite set of integers in ascending order
RECURSIVE Sorted(_)
Sorted(S) ==
  IF S = {} THEN <<>>
  ELSE LET lo == CHOOSE v \in S : \A w \in S : v <= w
       IN  <<lo>> \o Sorted(S \ {lo})

\* pd.get_dummies(self.data[name]).values.T: one indicator row per distinct
\* value, the values in ascending order
Dummies(d, name) ==
  LET col == Frames[d].cols[name]
      cats == Sorted({col[i] : i \in 1..Len(col)})
  IN  Matrix([k \in 1..Len(cats) |->
                [i \in 1..Len(col) |-> Num(IF col[i] = cats[k] THEN 1 ELSE 0)]])

(***************************************************************************)
(* The patterns of __init__ and the transform operators                    *)
(***************************************************************************)
TransformOps ==
  << <<"l", "o", "g">>, <<"e", "x", "p">>, <<"s", "i", "n">>, <<"c", "o", "s">>,
     <<"t", "a", "n">>, <<"t", "a", "n", "h">>, <<"s", "q", "r", "t">> >>

StartsWith(s, prefix) == Len(s) >= Len(prefix) /\ SubSeq(s, 1, Len(prefix)) = prefix

AllWord(s) == Len(s) > 0 /\ \A i \in 1..Len(s) : s[i] \in WordChars

\* '$' matches at the end of the string and before one newline that ends
\* the string: the text a pattern has to match up to its '$'
BeforeDollar(s) ==
  IF Len(s) > 0 /\ s[Len(s)] = "\n" THEN SubSeq(s, 1, Len(s) - 1) ELSE s

\* \(...\)$ after the k characters of the operator: '(' right after them
\* and ')' at the end
Parenthesized(t, k) == Len(t) >= k + 2 /\ t[k + 1] = "(" /\ t[Len(t)] = ")"

\* the text between that '(' and that ')'
Inner(t, k) == SubSeq(t, k + 2, Len(t) - 1)

\* .* : any characters but newlines
NoNewline(s) == ~Contains(s, "\n")

\* ^c\([\w\d]+\)$
DummyPattern(s) ==
  /\ StartsWith(s, <<"c">>)
  /\ Parenthesized(BeforeDollar(s), 1)
  /\ AllWord(Inner(BeforeDollar(s), 1))

\* ^(log|exp|sin|cos|tan|tanh|sqrt)\([\w\d]+\)$
TransformPattern(s) ==
  \E k \in 1..Len(TransformOps) :
    /\ StartsWith(s, TransformOps[k])
    /\ Parenthesized(BeforeDollar(s), Len(TransformOps[k]))
    /\ AllWord(Inner(BeforeDollar(s), Len(TransformOps[k])))

\* ^I\(.*\)$
PowerPattern(s) ==
  /\ StartsWith(s, <<"I">>)
  /\ Parenthesized(BeforeDollar(s), 1)
  /\ NoNewline(Inner(BeforeDollar(s), 1))

\* ^poly\(.*\)$
PolynomialPattern(s) ==
  /\ StartsWith(s, <<"p", "o", "l", "y">>)
  /\ Parenthesized(BeforeDollar(s), Len(<<"p", "o", "l", "y">>))
  /\ NoNewline(Inner(BeforeDollar(s), Len(<<"p", "o", "l", "y">>)))

\* self.data[name].transform(op).values: cell <<k, v>> for operator number k
Transform(d, op, name) ==
  LET k == CHOOSE j \in 1..Len(TransformOps) : TransformOps[j] = op
  IN  Vector([i \in 1..Frames[d].n |-> <<k, Frames[d].cols[name][i]>>])

(***************************************************************************)
(* The reads of self.data.  parse_op_ and the loop of parse_features_ read *)
(* the field anew at every use, and another call may assign it between two *)
(* reads.  A read source rs tells which data frame each read sees: read k  *)
(* sees rs.seen[k]; past the reads made so far it sees the frame rs.rest   *)
(* holds, or has not happened yet when rs.rest is empty.  A frame 0 is the *)
(* attribute that was never set.                                           *)
(***************************************************************************)
\* every read sees data frame d
Fresh(d) == [seen |-> <<>>, rest |-> <<d>>]

\* the reads made so far
Reads(seen) == [seen |-> seen, rest |-> <<>>]

Available(rs, k) == k <= Len(rs.seen) \/ rs.rest # <<>>

ReadAt(rs, k) == IF k <= Len(rs.seen) THEN rs.seen[k] ELSE rs.rest[1]

(***************************************************************************)
(* parse_op_: one feature, its first read of self.data being read k of rs. *)
(* The result is [more, used, a]: more when parse_op_ is at a read that    *)
(* has not happened yet, else the number of reads it used and the array it *)
(* returns or the exception it raises.                                     *)
(***************************************************************************)
More == [more |-> TRUE, used |-> 0, a |-> Raise("")]

Got(used, a) == [more |-> FALSE, used |-> used, a |-> a]

\* line 70: return self.data[feature].values
ParseColumn(d, feature) ==
  IF ~HasColumn(d, feature) THEN Raise(ErrKey) ELSE Vector(Values(d, feature))

\* lines 72-73
ParseDummy(d, feature) ==
  LET name == Slice(feature, Find(feature, "(") + 1, Find(feature, ")"))
  IN  IF ~HasColumn(d, name) THEN Raise(ErrKey) ELSE Dummies(d, name)

\* lines 75-77
ParseTransform(d, feature) ==
  LET op == Slice(feature, 0, Find(feature, "("))
      name == Slice(feature, Find(feature, "(") + 1, Find(feature, ")"))
  IN  IF ~HasColumn(d, name) THEN Raise(ErrKey) ELSE Transform(d, op, name)

\* the branch of line 70, 73 or 77 on the frame d it reads
Branch(kind, d, feature) ==
  IF kind = "column" THEN ParseColumn(d, feature)
  ELSE IF kind = "dummy" THEN ParseDummy(d, feature)
  ELSE ParseTransform(d, feature)

\* the read of self.data on line 70, 73 or 77, which follows the read of
\* line 69, and what the branch makes of the frame it sees
ValueRead(rs, k, kind, feature) ==
  IF ~Available(rs, k + 1) THEN More
  ELSE Got(2, Branch(kind, ReadAt(rs, k + 1), feature))

\* the exponent of a power term: the text after '^', unwrapped when it is
\* parenthesized, summed as fractions when the unwrapped text holds a '/'
Unwrapped(inside) ==
  IF Contains(inside, "/")
  THEN [early |-> TRUE, val |-> SumFractions(SplitWs(inside), Rational(0, 1))]
  ELSE [early |-> FALSE, val |-> ParseFloat(inside)]

Exponent(power) ==
  IF Contains(power, "(") /\ Contains(power, ")")
  THEN Unwrapped(Strip(Slice(power, Find(power, "(") + 1, Find(power, ")"))))
  ELSE [early |-> FALSE, val |-> ParseFloat(power)]

\* line 85 on the frame it reads: a missing column raises before the
\* lambda converts the exponent
PowerOf(d, name, e) ==
  IF ~HasColumn(d, name) THEN Raise(ErrKey)
  ELSE IF e.val.err # "" THEN Raise(e.val.err)
  ELSE Vector([i \in 1..Frames[d].n |->
                 PowCell(Frames[d].cols[name][i], e.val.num, e.val.den)])

\* lines 81-85: a bad fraction raises on line 84, before the read of line 85
PowerRead(rs, k, name, e) ==
  IF e.early /\ e.val.err # "" THEN Got(1, Raise(e.val.err))
  ELSE IF ~Available(rs, k + 1) THEN More
  ELSE Got(2, PowerOf(ReadAt(rs, k + 1), name, e))

\* feature, power = list(map(str.strip, feature.split("^")))
PowerParts(rs, k, parts) ==
  IF Len(parts) < 2 THEN Got(1, Raise(ErrUnpackFew))
  ELSE IF Len(parts) > 2 THEN Got(1, Raise(ErrUnpackMany))
  ELSE PowerRead(rs, k, parts[1], Exponent(parts[2]))

ParsePower(rs, k, feature) ==
  PowerParts(rs, k, StripAll(Split(Slice(feature, Find(feature, "(") + 1,
                                         RFind(feature, ")")), "^")))

\* self.data[feature].transform(lambda x: x**p).values on the frame read
PolyRow(d, name, p) == [i \in 1..Frames[d].n |-> Num(Pow(Frames[d].cols[name][i], p))]

\* np.array(rows): rows of different lengths do not make an array
\* (numpy 1.24 and later raise; earlier versions built an array of objects)
PolyArray(rows) ==
  IF \E j \in 1..Len(rows) : Len(rows[j]) # Len(rows[1]) THEN Raise(ErrRagged)
  ELSE Matrix(rows)

\* the reads of lines 92-93 that see a frame without the column
PolyMissing(rs, k, name, power) ==
  {p \in 1..power : Available(rs, k + p) /\ ~HasColumn(ReadAt(rs, k + p), name)}

\* lines 92-93: self.data is read once for every p in 1..power
PolyReads(rs, k, name, power) ==
  IF PolyMissing(rs, k, name, power) # {}
  THEN Got(1 + Cardinality({p \in 1..power : Available(rs, k + p)}), Raise(ErrKey))
  ELSE IF ~Available(rs, k + power) THEN More
  ELSE Got(1 + power,
           PolyArray([p \in 1..power |-> PolyRow(ReadAt(rs, k + p), name, p)]))

\* lines 89-91: power = int(power) and the check of power < 1
PolyOf(rs, k, name, power) ==
  IF power.err # "" THEN Got(1, Raise(power.err))
  ELSE IF power.num < 1 THEN Got(1, Raise(ErrPolyPower))
  ELSE PolyReads(rs, k, name, power.num)

\* feature, power = list(map(str.strip, feature.split(",")))
PolyParts(rs, k, parts) ==
  IF Len(parts) < 2 THEN Got(1, Raise(ErrUnpackFew))
  ELSE IF Len(parts) > 2 THEN Got(1, Raise(ErrUnpackMany))
  ELSE PolyOf(rs, k, parts[1], ParseInt(parts[2]))

ParsePoly(rs, k, feature) ==
  PolyParts(rs, k, StripAll(Split(Slice(feature, Find(feature, "(") + 1,
                                        Find(feature, ")")), ",")))

\* a variant that tries the patterns before the column names
ParseOpAtPatternsFirst(rs, k, feature) ==
  IF ~Available(rs, k) THEN More
  ELSE IF ReadAt(rs, k) = 0 THEN Got(1, Raise(ErrAttribute))
  ELSE IF DummyPattern(feature) THEN ValueRead(rs, k, "dummy", feature)
  ELSE IF TransformPattern(feature) THEN ValueRead(rs, k, "transform", feature)
  ELSE IF PowerPattern(feature) THEN ParsePower(rs, k, feature)
  ELSE IF PolynomialPattern(feature) THEN ParsePoly(rs, k, feature)
  ELSE IF HasColumn(ReadAt(rs, k), feature) THEN ValueRead(rs, k, "column", feature)
  ELSE Got(1, Raise(ErrUnsupported))

\* parse_op_: read k is the one of line 69
ParseOpAt(rs, k, feature) ==
  IF ~Available(rs, k) THEN More
  ELSE IF ReadAt(rs, k) = 0 THEN Got(1, Raise(ErrAttribute))
  ELSE IF HasColumn(ReadAt(rs, k), feature) THEN ValueRead(rs, k, "column", feature)
  ELSE IF DummyPattern(feature) THEN ValueRead(rs, k, "dummy", feature)
  ELSE IF TransformPattern(feature) THEN ValueRead(rs, k, "transform", feature)
  ELSE IF PowerPattern(feature) THEN ParsePower(rs, k, feature)
  ELSE IF PolynomialPattern(feature) THEN ParsePoly(rs, k, feature)
  ELSE Got(1, Raise(ErrUnsupported))

\* parse_op_ while self.data holds data frame d throughout
ParseOp(d, feature) == ParseOpAt(Fresh(d), 1, feature).a

(***************************************************************************)
(* parse_features_                                                         *)
(***************************************************************************)
\* a variant that forgets to trim the pieces
FeatureListUntrimmed(indep) == Split(indep, "+")

\* features = list(map(str.strip, indep.split("+")))
FeatureList(indep) == StripAll(Split(indep, "+"))

\* what one iteration of the loop does: [more, err, arrays], more when the
\* iteration is at a read that has not happened yet, else the exception it
\* raises or the arrays it appends to X
Appended(arrays) == [more |-> FALSE, err |-> "", arrays |-> arrays]

Failed(e) == [more |-> FALSE, err |-> e, arrays |-> <<>>]

MoreReads == [more |-> TRUE, err |-> "", arrays |-> <<>>]

\* X1 * X2 and the arrays the operator appends, given what to keep of
\* (X1, X2, X1 * X2)
Products(X1, X2, prod, keepOperands) ==
  IF X2.err # "" THEN Failed(X2.err)
  ELSE IF prod.err # "" THEN Failed(prod.err)
  ELSE Appended(IF keepOperands THEN <<X1, X2, prod>> ELSE <<prod>>)

\* the second parse_op_ of X1, X2 = map(self.parse_op_, sub_feature)
Operands(X1, second, keepOperands) ==
  IF second.more THEN MoreReads
  ELSE Products(X1, second.a, Multiply(X1, second.a), keepOperands)

\* the first parse_op_, its reads, and the second one, which reads after it
Second(rs, sub, first, keepOperands) ==
  IF first.more THEN MoreReads
  ELSE IF first.a.err # "" THEN Failed(first.a.err)
  ELSE Operands(first.a, ParseOpAt(rs, 1 + first.used, sub[2]), keepOperands)

Binary(rs, sub, arityError, keepOperands) ==
  IF Len(sub) # 2 THEN Failed(arityError)
  ELSE Second(rs, sub, ParseOpAt(rs, 1, sub[1]), keepOperands)

\* X.append(self.parse_op_(feature))
Single(r) ==
  IF r.more THEN MoreReads
  ELSE IF r.a.err # "" THEN Failed(r.a.err)
  ELSE Appended(<<r.a>>)

\* line 107: X.append(np.ones(self.data.shape[0]))
Intercept(rs) ==
  IF ~Available(rs, 1) THEN MoreReads
  ELSE IF ReadAt(rs, 1) = 0 THEN Failed(ErrAttribute)
  ELSE Appended(<<Ones(ReadAt(rs, 1))>>)

\* one iteration of the loop over features, its reads of self.data being
\* those of rs from the first on
ResolveTerm(rs, feature) ==
  IF feature = <<"1">> THEN Intercept(rs)
  ELSE IF Contains(feature, ":")
  THEN Binary(rs, StripAll(Split(feature, ":")), ErrColon, FALSE)
  ELSE IF Contains(feature, "*")
  THEN Binary(rs, StripAll(Split(feature, "*")), ErrStar, TRUE)
  ELSE Single(ParseOpAt(rs, 1, feature))

\* the rows of all arrays of X, in order
RECURSIVE Rows(_)
Rows(X) == IF X = <<>> THEN <<>> ELSE Head(X).rows \o Rows(Tail(X))

\* np.vstack(rows), transposed or not
StackRows(rows, transpose) ==
  IF \E j \in 1..Len(rows) : Len(rows[j]) # Len(rows[1])
  THEN [err |-> ErrStack, X |-> <<>>]
  ELSE [err |-> "",
        X |-> IF transpose
              THEN [i \in 1..Len(rows[1]) |-> [j \in 1..Len(rows) |-> rows[j][i]]]
              ELSE rows]

\* a variant that forgets the transposition
StackNoTranspose(X) == StackRows(Rows(X), FALSE)

\* np.vstack(X).T: the rows must have one length; row i of the result
\* holds cell i of every stacked row
Stack(X) == StackRows(Rows(X), TRUE)

(***************************************************************************)
(* __call__ without the instance: the outcome of one call as a function of *)
(* its formula string and its data frame d.  An outcome is [err, X, y]:    *)
(* err is "" when (X, y) is returned, and the exception otherwise.         *)
(***************************************************************************)
Returned(X, y) == [err |-> "", X |-> X, y |-> y]

Raised(e) == [err |-> e, X |-> <<>>, y |-> <<>>]

\* lines 129-132: the separator check and dep, indep = map(str.strip, ...)
SplitFormula(string) ==
  LET parts == StripAll(Split(string, "~"))
  IN  IF Count(string, "~") > 1 THEN [err |-> ErrSeparator, dep |-> <<>>, indep |-> <<>>]
      ELSE IF Len(parts) < 2 THEN [err |-> ErrUnpackFew, dep |-> <<>>, indep |-> <<>>]
      ELSE [err |-> "", dep |-> parts[1], indep |-> parts[2]]

\* the loop of parse_features_ from feature i on, X being what is appended so far
RECURSIVE ResolveFrom(_, _, _, _), ResolveNext(_, _, _, _, _)
ResolveFrom(d, features, i, X) ==
  IF i > Len(features) THEN Appended(X)
  ELSE ResolveNext(d, features, i, X, ResolveTerm(Fresh(d), features[i]))

ResolveNext(d, features, i, X, r) ==
  IF r.err # "" THEN r ELSE ResolveFrom(d, features, i + 1, X \o r.arrays)

\* return np.vstack(X).T
StackAll(r) == IF r.err # "" THEN [err |-> r.err, X |-> <<>>] ELSE Stack(r.arrays)

\* parse_features_ on its list of features
ParseList(d, features) ==
  IF HasDuplicates(features) THEN [err |-> ErrDuplicate, X |-> <<>>]
  ELSE StackAll(ResolveFrom(d, features, 1, <<>>))

\* parse_features_(indep) against data frame d
ParseFeatures(d, indep) == ParseList(d, FeatureList(indep))

\* lines 140-141
Outcome(m, y) == IF m.err # "" THEN Raised(m.err) ELSE Returned(m.X, y)

\* lines 133-141
EvaluateSplit(f, d) ==
  IF f.err # "" THEN Raised(f.err)
  ELSE IF ~HasColumn(d, f.dep) THEN Raised(ErrResponse)
  ELSE Outcome(ParseFeatures(d, f.indep), Values(d, f.dep))

Evaluate(string, d) == EvaluateSplit(SplitFormula(string), d)

(***************************************************************************)
(* The formula strings the calls are made with: a head (the response and   *)
(* the separator) followed by up to MaxTerms feature terms joined by       *)
(* ' + ', and the malformed heads followed by one term.                    *)
(***************************************************************************)
MaxTerms == 2

MaxRaceTerms == 1

Atoms ==
  { <<"1">>,
    <<"x">>,
    <<"c", "(", "g", ")">>,
    <<"c", "(", "m", ")">>,
    <<"l", "o", "g", "(", "x", ")">>,
    <<"I", "(", "x", "^", "(", "1", "/", "2", ")", ")">>,
    <<"p", "o", "l", "y", "(", "x", ",", "\t", "2", ")">>,
    <<"x", ":", "z">>,
    <<"x", " ", ":", " ", "c", "(", "g", ")">>,
    <<"x", "*", "z">>,
    <<"f", "(", "x", ")">>,
    <<"x", ":", "z", ":", "x">> }

RaceAtoms == { <<"1">>,
              <<"x">>,
              <<"c", "(", "g", ")">>,
              <<"x", ":", "z">> }

\* 'y ~ ': the response and one separator
GoodHead == <<"y", " ", "~", " ">>

\* 'w ~ ' (no such column), 'y ' (no separator), 'y ~ x ~ ' (two separators)
BadHeads == { <<"w", " ", "~", " ">>, <<"y", " ">>,
              <<"y", " ", "~", " ", "x", " ", "~", " ">> }

RECURSIVE JoinPlus(_)
JoinPlus(terms) ==
  IF Len(terms) = 1 THEN terms[1]
  ELSE terms[1] \o <<" ", "+", " ">> \o JoinPlus(Tail(terms))

TermLists(atoms, max) == UNION {[1..k -> atoms] : k \in 1..max}

Formulas ==
  {GoodHead \o JoinPlus(ts) : ts \in TermLists(Atoms, MaxTerms)} \cup
  {h \o a : h \in BadHeads, a \in Atoms}

RaceFormulas ==
  {GoodHead \o JoinPlus(ts) : ts \in TermLists(RaceAtoms, MaxRaceTerms)} \cup
  {h \o a : h \in BadHeads, a \in RaceAtoms}

(***************************************************************************)
(* The evaluator instance and the calls made on it.                        *)
(*   self_data   self.data: the number of the data frame the field holds,  *)
(*               0 while the attribute does not exist                      *)
(*   chunksize   self.chunksize (0 is None)                                *)
(*   call[p]     caller p's call of __call__: its position pc, its         *)
(*               arguments string and data, its locals dep, indep, y,      *)
(*               features, i (the loop position) and X, the data frames    *)
(*               the current iteration has read from self.data so far      *)
(*               (reads), and its outcome                                  *)
(***************************************************************************)
VARIABLES self_data, chunksize, call

vars == <<self_data, chunksize, call>>

Callers == {1, 2}

ChunkSizes == {0, 4}

NoOutcome == Raised("")

Idle ==
  [pc |-> "idle", string |-> <<>>, data |-> 0, dep |-> <<>>, indep |-> <<>>,
   y |-> <<>>, features |-> <<>>, i |-> 0, X |-> <<>>, reads |-> <<>>,
   outcome |-> NoOutcome]

\* the call is over: its locals are gone, the caller holds the outcome
Done(c, outcome) ==
  [Idle EXCEPT !.pc = "done", !.string = c.string, !.data = c.data,
               !.outcome = outcome]

\* __init__
Init ==
  /\ self_data = 0
  /\ chunksize \in ChunkSizes
  /\ call = [p \in Callers |-> Idle]

\* a variant that assigns the field before the formula is checked
AssignedAlways(string) == TRUE

\* whether the call reaches line 133
Assigned(string) == SplitFormula(string).err = ""

\* a variant that keeps the data frame of the first call
AssignDataOnce(old, new) == IF old = 0 THEN new ELSE old

\* self.data = data
AssignData(old, new) == new

\* lines 126-133: the call with its arguments, up to the assignment of the field
Entered(c, f) ==
  IF f.err # "" THEN Done(c, Raised(f.err))
  ELSE [c EXCEPT !.pc = "response", !.dep = f.dep, !.indep = f.indep]

CallEnter(p, s, d) ==
  /\ call[p].pc = "idle"
  /\ self_data' = IF Assigned(s) THEN AssignData(self_data, d) ELSE self_data
  /\ call' = [call EXCEPT ![p] =
                Entered([call[p] EXCEPT !.string = s, !.data = d], SplitFormula(s))]
  /\ UNCHANGED chunksize

\* lines 135-136
ResponseCheck(p) ==
  LET c == call[p]
  IN  /\ c.pc = "response"
      /\ call' = [call EXCEPT ![p] =
                    IF self_data = 0 THEN Done(c, Raised(ErrAttribute))
                    ELSE IF ~HasColumn(self_data, c.dep) THEN Done(c, Raised(ErrResponse))
                    ELSE [c EXCEPT !.pc = "read_y"]]
      /\ UNCHANGED <<self_data, chunksize>>

\* line 137
ResponseRead(p) ==
  LET c == call[p]
  IN  /\ c.pc = "read_y"
      /\ call' = [call EXCEPT ![p] =
                    IF self_data = 0 THEN Done(c, Raised(ErrAttribute))
                    ELSE IF ~HasColumn(self_data, c.dep) THEN Done(c, Raised(ErrKey))
                    ELSE [c EXCEPT !.pc = "parse_features",
                                   !.y = Values(self_data, c.dep)]]
      /\ UNCHANGED <<self_data, chunksize>>

\* lines 140, 101-104
ParseFeaturesEnter(p) ==
  LET c == call[p]
      features == FeatureList(c.indep)
  IN  /\ c.pc = "parse_features"
      /\ call' = [call EXCEPT ![p] =
                    IF HasDuplicates(features) THEN Done(c, Raised(ErrDuplicate))
                    ELSE [c EXCEPT !.pc = "loop", !.features = features, !.i = 1]]
      /\ UNCHANGED <<self_data, chunksize>>

\* lines 105-123, one read of self.data at a time: what is code of the
\* iteration between two reads works on the call's locals only.  A step
\* makes the read the iteration is at and runs on to the next read, where
\* the call can be overtaken by another call's assignment, or to the end of
\* the iteration.
Looped(c, seen, r) ==
  IF r.more THEN [c EXCEPT !.reads = seen]
  ELSE IF r.err # "" THEN Done(c, Raised(r.err))
  ELSE [c EXCEPT !.X = c.X \o r.arrays, !.i = c.i + 1, !.reads = <<>>]

LoopRead(c, seen) == Looped(c, seen, ResolveTerm(Reads(seen), c.features[c.i]))

\* whether the iteration has a read to make (an operator of wrong arity
\* raises before any read)
AtRead(c) == ResolveTerm(Reads(c.reads), c.features[c.i]).more

Loop(p) ==
  /\ call[p].pc = "loop"
  /\ call[p].i <= Len(call[p].features)
  /\ call' = [call EXCEPT ![p] =
                LoopRead(call[p], IF AtRead(call[p])
                                  THEN Append(call[p].reads, self_data)
                                  ELSE call[p].reads)]
  /\ UNCHANGED <<self_data, chunksize>>

\* lines 124, 141
Return(p) ==
  /\ call[p].pc = "loop"
  /\ call[p].i > Len(call[p].features)
  /\ call' = [call EXCEPT ![p] = Done(call[p], Outcome(Stack(call[p].X), call[p].y))]
  /\ UNCHANGED <<self_data, chunksize>>

\* the caller has taken the outcome and may call again
Forget(p) ==
  /\ call[p].pc = "done"
  /\ call' = [call EXCEPT ![p] = Idle]
  /\ UNCHANGED <<self_data, chunksize>>

\* no other caller is inside a call
Quiet(p) == \A q \in Callers \ {p} : call[q].pc = "idle"

\* a call made while no other call is in progress
Enter(p) == Quiet(p) /\ \E s \in Formulas, d \in FrameIds : CallEnter(p, s, d)

RaceEnter(p) == \E s \in RaceFormulas, d \in FrameIds : CallEnter(p, s, d)

\* non-overlapping calls on one instance: a call is entered only when the
\* instance is quiet, and the caller takes its outcome before the next call
Next ==
  \E p \in Callers :
    \/ Enter(p)
    \/ ResponseCheck(p)
    \/ ResponseRead(p)
    \/ ParseFeaturesEnter(p)
    \/ Loop(p)
    \/ Return(p)
    \/ Forget(p)

Spec == Init /\ [][Next]_vars

\* one call by each caller on one instance, their steps interleaved
NextRace ==
  \E p \in Callers :
    \/ RaceEnter(p)
    \/ ResponseCheck(p)
    \/ ResponseRead(p)
    \/ ParseFeaturesEnter(p)
    \/ Loop(p)
    \/ Return(p)

SpecRace == Init /\ [][NextRace]_vars

(***************************************************************************)
(* The error kinds of the specification, by the place that raises them     *)
(***************************************************************************)
FormulaSyntaxErrors == {ErrSeparator, ErrDuplicate, ErrColon, ErrStar}

UnknownColumnErrors == {ErrResponse}

IsDone(p) == call[p].pc = "done"

HasReturned(p) == IsDone(p) /\ call[p].outcome.err = ""

\* the features of a formula with one separator, trimmed
TermsOf(string) == StripAll(Split(Strip(Split(string, "~")[2]), "+"))

\* the column name inside a pattern term
NameInside(term) ==
  IF PowerPattern(term)
  THEN Strip(Split(Slice(term, Find(term, "(") + 1, RFind(term, ")")), "^")[1])
  ELSE IF PolynomialPattern(term)
  THEN Strip(Split(Slice(term, Find(term, "(") + 1, Find(term, ")")), ",")[1])
  ELSE Slice(term, Find(term, "(") + 1, Find(term, ")"))

\* the call gets to parse_features_: one separator and a known response
ReachesParseFeatures(p) ==
  /\ Count(call[p].string, "~") = 1
  /\ HasColumn(call[p].data, Strip(Split(call[p].string, "~")[1]))

\* a term that is neither the intercept nor an interaction nor a cross
IsPlain(term) == term # <<"1">> /\ ~Contains(term, ":") /\ ~Contains(term, "*")

(***************************************************************************)
(* C1: every formula string without exactly one '~' (none, or two or more) *)
(* makes __call__ fail with the formula-syntax error kind.                 *)
(* The code raises that error for two or more separators only; with none,  *)
(* the unpacking of the split on line 132 fails instead.                   *)
(***************************************************************************)
C1_SeparatorSyntaxError ==
  \A p \in Callers :
    IsDone(p) /\ Count(call[p].string, "~") # 1
      => call[p].outcome.err \in FormulaSyntaxErrors

(***************************************************************************)
(* C2: an interaction 'A:B' with an operand that resolves to several       *)
(* vectors (a dummy or a polynomial term) fails instead of appending       *)
(* columns to X.  Stated on the loop: no such term is ever passed.         *)
(***************************************************************************)
MultiVectorInteraction(d, term) ==
  /\ Contains(term, ":")
  /\ Len(Split(term, ":")) = 2
  /\ \E k \in 1..2 : ParseOp(d, Strip(Split(term, ":")[k])).dim = 2

C2_InteractionRejectsMultiVector ==
  \A p \in Callers :
    call[p].pc = "loop"
      => \A j \in 1..(call[p].i - 1) :
           ~MultiVectorInteraction(call[p].data, call[p].features[j])

(***************************************************************************)
(* C3: parse_op_ takes the first match in the order raw column, dummy,     *)
(* transform, power, polynomial, unsupported; a term equal to a column     *)
(* name yields that column's values even when it also matches a pattern.   *)
(* Stated on the array the loop has just appended for a plain term.        *)
(***************************************************************************)
ClaimedKind(d, term) ==
  IF HasColumn(d, term) THEN "raw"
  ELSE IF DummyPattern(term) THEN "dummy"
  ELSE IF TransformPattern(term) THEN "transform"
  ELSE IF PowerPattern(term) THEN "power"
  ELSE IF PolynomialPattern(term) THEN "poly"
  ELSE "unsupported"

ShapeOfKind(d, kind, term, a) ==
  CASE kind = "raw" -> a = Vector(Values(d, term))
    [] kind = "dummy" ->
         a.dim = 2 /\ \A i \in 1..Frames[d].n :
                        Cardinality({k \in 1..Len(a.rows) : a.rows[k][i] = Num(1)}) = 1
    [] kind = "transform" ->
         a.dim = 1 /\ \A i \in 1..Frames[d].n : a.rows[1][i][1] \in 1..Len(TransformOps)
    [] kind = "power" -> a.dim = 1
    [] kind = "poly" -> a.dim = 2 /\ a.rows[1] = Values(d, NameInside(term))
    [] OTHER -> FALSE

\* a finished call whose formula is one plain term, resolved by parse_op_
SinglePlainTerm(p) ==
  /\ IsDone(p)
  /\ ReachesParseFeatures(p)
  /\ Len(TermsOf(call[p].string)) = 1
  /\ IsPlain(TermsOf(call[p].string)[1])

C3_FirstMatchWins ==
  \A p \in Callers :
    /\ (call[p].pc = "loop" /\ call[p].i > 1 /\ IsPlain(call[p].features[call[p].i - 1]))
         => ShapeOfKind(call[p].data,
                        ClaimedKind(call[p].data, call[p].features[call[p].i - 1]),
                        call[p].features[call[p].i - 1],
                        call[p].X[Len(call[p].X)])
    /\ SinglePlainTerm(p)
         => /\ ClaimedKind(call[p].data, TermsOf(call[p].string)[1]) = "raw"
                 => call[p].outcome.err = ""
            /\ ClaimedKind(call[p].data, TermsOf(call[p].string)[1]) = "unsupported"
                 <=> call[p].outcome.err = ErrUnsupported

\* the term 'c(g)' resolved against the frame that has a column of that name
C3_Witness ==
  \E p \in Callers :
    /\ call[p].pc = "loop" /\ call[p].i > 1
    /\ call[p].features[call[p].i - 1] = <<"c", "(", "g", ")">>
    /\ HasColumn(call[p].data, <<"c", "(", "g", ")">>)

(***************************************************************************)
(* C4: two textually identical trimmed terms make parse_features_ fail     *)
(* with the formula-syntax error (duplicate features) before any term is   *)
(* resolved: the loop is never entered, and no other term error is raised. *)
(***************************************************************************)
C4_DuplicatesFailFirst ==
  \A p \in Callers :
    /\ (IsDone(p) /\ ReachesParseFeatures(p) /\ HasDuplicates(TermsOf(call[p].string)))
         => call[p].outcome.err = ErrDuplicate
    /\ call[p].pc = "loop" => ~HasDuplicates(TermsOf(call[p].string))

\* a duplicated term that would itself raise an error when resolved
C4_Witness ==
  \E p \in Callers :
    /\ IsDone(p) /\ call[p].outcome.err = ErrDuplicate
    /\ ResolveTerm(Fresh(call[p].data), TermsOf(call[p].string)[1]).err # ""

(***************************************************************************)
(* C5: the columns of a returned X are the terms' groups in order, with    *)
(* 1 column for the intercept, exactly 1 for an interaction, exactly 3 for *)
(* a cross, one per category for a dummy, k for poly(x, k), 1 otherwise.   *)
(* Stated on the column count.                                             *)
(***************************************************************************)
ClaimedColumns(d, term) ==
  IF term = <<"1">> THEN 1
  ELSE IF Contains(term, ":") THEN 1
  ELSE IF Contains(term, "*") THEN 3
  ELSE Len(ParseOp(d, term).rows)

RECURSIVE SumColumns(_, _)
SumColumns(d, terms) ==
  IF terms = <<>> THEN 0
  ELSE ClaimedColumns(d, Head(terms)) + SumColumns(d, Tail(terms))

C5_ColumnLayout ==
  \A p \in Callers :
    HasReturned(p)
      => Len(call[p].outcome.X[1]) = SumColumns(call[p].data, TermsOf(call[p].string))

(***************************************************************************)
(* C6: whenever __call__ returns, X has exactly n rows and y exactly n     *)
(* entries, n being the row count of the data frame passed to the call.    *)
(***************************************************************************)
C6_RowCounts ==
  \A p \in Callers :
    HasReturned(p)
      => /\ Len(call[p].outcome.X) = Frames[call[p].data].n
         /\ Len(call[p].outcome.y) = Frames[call[p].data].n

\* a returned design matrix with more columns than rows
C6_Witness ==
  \E p \in Callers :
    HasReturned(p) /\ Len(call[p].outcome.X[1]) > Frames[call[p].data].n

(***************************************************************************)
(* C7: a formula that references a column absent from the data frame, as   *)
(* the response or inside a dummy, transform, power or polynomial term,    *)
(* fails with the unknown-column error kind, the same in every position.   *)
(* Stated for formulas with one separator and distinct terms.              *)
(***************************************************************************)
ReferencesAbsent(d, term) ==
  /\ ~HasColumn(d, term)
  /\ DummyPattern(term) \/ TransformPattern(term) \/ PowerPattern(term)
       \/ PolynomialPattern(term)
  /\ ~HasColumn(d, NameInside(term))

C7_UnknownColumnKind ==
  \A p \in Callers :
    (/\ IsDone(p)
     /\ Count(call[p].string, "~") = 1
     /\ ~HasDuplicates(TermsOf(call[p].string))
     /\ \/ ~HasColumn(call[p].data, Strip(Split(call[p].string, "~")[1]))
        \/ \E j \in 1..Len(TermsOf(call[p].string)) :
             ReferencesAbsent(call[p].data, TermsOf(call[p].string)[j]))
      => call[p].outcome.err \in UnknownColumnErrors

(***************************************************************************)
(* C8 as claimed: no step of a call changes the state of the instance,     *)
(* neither the current-data field nor chunksize.                           *)
(***************************************************************************)
C8_NoSideEffects == [][self_data' = self_data /\ chunksize' = chunksize]_vars

(***************************************************************************)
(* C8 as amended: a call never changes chunksize, and the only change it   *)
(* makes to the instance is to set the current-data field to its own data  *)
(* frame, which it does exactly when its formula has one '~' separator;    *)
(* the field then keeps that value whether the call returns or fails.      *)
(***************************************************************************)
Enters(p) == call[p].pc = "idle" /\ call'[p].pc # "idle"

C8_OnlyDataFieldAssigned ==
  [][/\ chunksize' = chunksize
     /\ \A p \in Callers :
          Enters(p) =>
            self_data' = IF Count(call'[p].string, "~") = 1 THEN call'[p].data
                         ELSE self_data
     /\ (\A p \in Callers : ~Enters(p)) => self_data' = self_data]_vars

\* a finished call whose data frame the field still holds
C8_Witness ==
  \E p \in Callers : IsDone(p) /\ call[p].outcome.err # "" /\ self_data = call[p].data

(***************************************************************************)
(* C9: in a sequence of non-overlapping calls on one instance, the outcome *)
(* of each call is the outcome of the same call on a fresh evaluator: a    *)
(* function of its own formula string and data frame.                      *)
(***************************************************************************)
C9_OutcomeOfOwnArguments ==
  \A p \in Callers :
    IsDone(p) => call[p].outcome = Evaluate(call[p].string, call[p].data)

\* a call that ended while the field held the data frame of an earlier call
C9_Witness ==
  \E p \in Callers : IsDone(p) /\ self_data # 0 /\ self_data # call[p].data

(***************************************************************************)
(* C10: when the steps of two calls on one instance interleave, a call can *)
(* return y read from its own data frame together with X resolved from the *)
(* other call's data frame (the witness).  The formula states when: a call *)
(* ends with an outcome other than that of its own arguments only if       *)
(* another call, with another data frame, assigned the field after it.     *)
(***************************************************************************)
C10_DeviationOnlyByOverwrite ==
  \A p \in Callers :
    (IsDone(p) /\ call[p].outcome # Evaluate(call[p].string, call[p].data))
      => \E q \in Callers \ {p} :
           /\ call[q].pc # "idle"
           /\ Count(call[q].string, "~") = 1
           /\ call[q].data # call[p].data
           /\ self_data = call[q].data

C10_Witness ==
  \E p \in Callers : \E q \in Callers \ {p} :
    /\ HasReturned(p)
    /\ call[q].pc # "idle"
    /\ call[q].data # call[p].data
    /\ call[p].outcome.y = Values(call[p].data, <<"y">>)
    /\ call[p].outcome.X = Evaluate(call[p].string, call[q].data).X

=============================================================================
